---- MODULE Spec2Model ----
(***************************************************************************)
(* Model of src/backend/main.py: a FastAPI application holding one         *)
(* module-level integer `counter` and a /shutdown route that ends the      *)
(* process from a background thread.                                        *)
(*                                                                          *)
(* The route functions are plain `def`s, so the framework runs each        *)
(* request's handler on a worker thread of its pool while the event loop   *)
(* writes the returned value to the socket.  Nothing in main.py guards the *)
(* global, so every read (LOAD_GLOBAL) and every write (STORE_GLOBAL) of   *)
(* `counter` is a step of its own that other threads may interleave with.  *)
(***************************************************************************)
EXTENDS Integers, Sequences, FiniteSets, TLC

\* Worker threads of the pool that may run handlers at the same time.
NThreads == 2
\* Requests accepted over the whole run (caps the counters of the model).
MaxRequests == 3

Threads == 1..NThreads

\* The application's routes: (method, path) pairs registered by the decorators.
Routes == {"GET /", "GET /counter", "POST /counter/increment",
           "POST /counter/reset", "POST /shutdown"}

VARIABLES
    counter,      \* the module global `counter`
    pc,           \* pc[t]: where worker thread t stands in its handler
    route,        \* route[t]: the route thread t is serving ("none" when idle)
    tmp,          \* tmp[t]: the value on t's evaluation stack (counter + 1)
    resp,         \* resp[t]: the dict being returned by t's handler
    sleeping,     \* background shutdown threads inside time.sleep(0.1)
    awake,        \* background shutdown threads past the sleep, before os._exit
    alive,        \* the process is running
    exitStatus,   \* status passed to os._exit (-1 while running)
    exitCount,    \* number of times the process has exited
    \* ---- history of the run (read by the properties only) ----
    started,      \* requests dispatched so far
    incStarted,   \* POST /counter/increment requests dispatched so far
    resetStarted, \* POST /counter/reset requests dispatched so far
    sdHandled,    \* POST /shutdown handlers that have started their thread
    seq,          \* TRUE while no two requests have ever overlapped
    cleanSinceReset, \* a reset has completed; no increment in flight since it completed
    fresh,        \* GETs dispatched while cleanSinceReset, no increment dispatched since
    quietResets,  \* resets in flight with no increment in flight since their dispatch
    quietSinceReset, \* a reset has completed; no increment in flight since its dispatch
    freshQuiet,   \* GETs dispatched while quietSinceReset, no increment dispatched since
    epBase,       \* counter's value when the current burst of increments began
    epIncs,       \* increments dispatched in the current burst
    epTaint,      \* a reset overlapped or followed the current burst
    sinceWrite,   \* increments dispatched since the last reset's write of 0
    sinceValid    \* that write happened, with no increment in flight at it

prog == <<counter, pc, route, tmp, resp, sleeping, awake, alive, exitStatus, exitCount>>
hist == <<started, incStarted, resetStarted, sdHandled, seq, cleanSinceReset, fresh,
          quietResets, quietSinceReset, freshQuiet, epBase, epIncs, epTaint>>
resetHist == <<sinceWrite, sinceValid>>
vars == <<prog, hist, resetHist>>

----------------------------------------------------------------------------
\* str(n) for n >= 0, as the f-string of line 34 formats it: decimal digits.
DigitChar == <<"0", "1", "2", "3", "4", "5", "6", "7", "8", "9">>

RECURSIVE IntToStr(_)
IntToStr(n) ==
    IF n < 10 THEN <<DigitChar[n + 1]>>
    ELSE IntToStr(n \div 10) \o <<DigitChar[(n % 10) + 1]>>

\* f"Counter incremented to {v}"
IncrementMessage(v) == <<"Counter incremented to ">> \o IntToStr(v)

IsDigit(c) == \E i \in 1..10 : DigitChar[i] = c
DigitValue(c) == (CHOOSE i \in 1..10 : DigitChar[i] = c) - 1

\* The integer a message ends with: its longest suffix of digits, read in base 10
\* (-1 when the message ends with no digit).
RECURSIVE ParseDigits(_, _)
ParseDigits(s, acc) ==
    IF s = << >> THEN acc
    ELSE ParseDigits(Tail(s), 10 * acc + DigitValue(Head(s)))

RECURSIVE DigitSuffix(_)
DigitSuffix(s) ==
    IF s = << >> \/ ~IsDigit(s[Len(s)]) THEN << >>
    ELSE DigitSuffix(SubSeq(s, 1, Len(s) - 1)) \o <<s[Len(s)]>>

TrailingInt(msg) ==
    IF DigitSuffix(msg) = << >> THEN -1 ELSE ParseDigits(DigitSuffix(msg), 0)

----------------------------------------------------------------------------
\* A URL path is its segments and whether it ends with a slash: "/" is no
\* segment with the slash, "/counter/reset" two segments without it.
Path(segs, slash) == [segs |-> segs, slash |-> slash]

\* The routing table the decorators of lines 20, 24, 29, 36 and 43 build.
RouteTable ==
    { [method |-> "GET",  path |-> Path(<< >>, TRUE),                     name |-> "GET /"],
      [method |-> "GET",  path |-> Path(<<"counter">>, FALSE),            name |-> "GET /counter"],
      [method |-> "POST", path |-> Path(<<"counter", "increment">>, FALSE),
                                                     name |-> "POST /counter/increment"],
      [method |-> "POST", path |-> Path(<<"counter", "reset">>, FALSE),   name |-> "POST /counter/reset"],
      [method |-> "POST", path |-> Path(<<"shutdown">>, FALSE),           name |-> "POST /shutdown"] }

\* The requests a client is taken to send: the registered paths, one of them
\* with a slash appended, and a path no decorator names; OPTIONS requests
\* come with or without the CORS preflight headers (Origin and
\* Access-Control-Request-Method).
Methods == {"GET", "POST", "OPTIONS"}
Paths == {e.path : e \in RouteTable}
            \cup {Path(<<"counter">>, TRUE), Path(<<"nope">>, FALSE)}
Requests ==
    {[method |-> m, path |-> p, preflight |-> f] :
        m \in Methods, p \in Paths, f \in BOOLEAN} \
    {q \in [method : Methods, path : Paths, preflight : BOOLEAN] :
        q.preflight /\ q.method # "OPTIONS"}

PathKnown(p) == \E e \in RouteTable : e.path = p
\* The path with its trailing slash removed, or added when it has none.
ToggleSlash(p) == Path(p.segs, ~p.slash)

\* Routing by path alone, the method ignored.
ResolveByPathOnly(q) ==
    IF PathKnown(q.path)
    THEN [handler |-> (CHOOSE e \in RouteTable : e.path = q.path).name, status |-> 200]
    ELSE [handler |-> "none", status |-> 404]

\* What the application built at lines 7-15 and 20-44 does with request q:
\* the CORS middleware answers a preflight itself; the router runs the handler
\* registered for q's method and path, answers 405 when the path is registered
\* for other methods only, redirects (307) to the path with the trailing slash
\* toggled when that one is registered, and answers 404 otherwise.
Resolve(q) ==
    IF q.method = "OPTIONS" /\ q.preflight
        THEN [handler |-> "none", status |-> 200]
    ELSE IF \E e \in RouteTable : e.path = q.path /\ e.method = q.method
        THEN [handler |->
                 (CHOOSE e \in RouteTable : e.path = q.path /\ e.method = q.method).name,
              status |-> 200]
    ELSE IF PathKnown(q.path)
        THEN [handler |-> "none", status |-> 405]
    ELSE IF q.path.segs # << >> /\ PathKnown(ToggleSlash(q.path))
        THEN [handler |-> "none", status |-> 307]
    ELSE [handler |-> "none", status |-> 404]

\* The outcome of routing, for each request.
Routing == [q \in Requests |-> Resolve(q)]

InFlight(r) == {t \in Threads : route[t] = r}
Busy == {t \in Threads : pc[t] # "idle"}

\* A start with the counter at 1 instead of 0.
InitCounterOne == counter = 1

\* line 18: counter = 0
InitCounter == counter = 0

\* The state once the module is loaded and the server listens: no request
\* accepted, no thread started yet.
Init ==
    /\ InitCounter
    /\ pc = [t \in Threads |-> "idle"]
    /\ route = [t \in Threads |-> "none"]
    /\ tmp = [t \in Threads |-> 0]
    /\ resp = << >>
    /\ sleeping = 0
    /\ awake = 0
    /\ alive = TRUE
    /\ exitStatus = -1
    /\ exitCount = 0
    /\ started = 0
    /\ incStarted = 0
    /\ resetStarted = 0
    /\ sdHandled = 0
    /\ seq = TRUE
    /\ cleanSinceReset = FALSE
    /\ fresh = {}
    /\ quietResets = {}
    /\ quietSinceReset = FALSE
    /\ freshQuiet = {}
    /\ epBase = 0
    /\ epIncs = 0
    /\ epTaint = FALSE
    /\ sinceWrite = 0
    /\ sinceValid = FALSE

\* First program point of each route's handler.
Entry(r) ==
    CASE r = "GET /" -> "root_ret"
      [] r = "GET /counter" -> "get_ret"
      [] r = "POST /counter/increment" -> "inc_load"
      [] r = "POST /counter/reset" -> "rst_store"
      [] r = "POST /shutdown" -> "sd_spawn"

\* The server accepts a request for route r and hands it to an idle worker of
\* the pool (the workers are interchangeable: the lowest-numbered idle one).
Dispatch(t, r) ==
    /\ alive
    /\ pc[t] = "idle"
    /\ \A u \in Threads : pc[u] = "idle" => t <= u
    /\ started < MaxRequests
    /\ pc' = [pc EXCEPT ![t] = Entry(r)]
    /\ route' = [route EXCEPT ![t] = r]
    /\ started' = started + 1
    /\ seq' = (seq /\ Busy = {})
    /\ incStarted' = IF r = "POST /counter/increment" THEN incStarted + 1 ELSE incStarted
    /\ resetStarted' = IF r = "POST /counter/reset" THEN resetStarted + 1 ELSE resetStarted
    /\ cleanSinceReset' = (cleanSinceReset /\ r # "POST /counter/increment")
    /\ fresh' = IF r = "POST /counter/increment" THEN {}
                ELSE IF r = "GET /counter" /\ cleanSinceReset THEN fresh \cup {t}
                ELSE fresh
    /\ quietSinceReset' = (quietSinceReset /\ r # "POST /counter/increment")
    /\ freshQuiet' = IF r = "POST /counter/increment" THEN {}
                     ELSE IF r = "GET /counter" /\ quietSinceReset THEN freshQuiet \cup {t}
                     ELSE freshQuiet
    /\ quietResets' = IF r = "POST /counter/increment" THEN {}
                      ELSE IF r = "POST /counter/reset"
                              /\ InFlight("POST /counter/increment") = {}
                           THEN quietResets \cup {t}
                      ELSE quietResets
    /\ IF r = "POST /counter/increment"
       THEN IF InFlight("POST /counter/increment") = {}
            THEN /\ epBase' = counter
                 /\ epIncs' = 1
                 /\ epTaint' = (InFlight("POST /counter/reset") # {})
            ELSE /\ epIncs' = epIncs + 1
                 /\ UNCHANGED <<epBase, epTaint>>
       ELSE /\ epTaint' = (epTaint \/ r = "POST /counter/reset")
            /\ UNCHANGED <<epBase, epIncs>>
    /\ sinceWrite' = IF r = "POST /counter/increment" THEN sinceWrite + 1 ELSE sinceWrite
    /\ UNCHANGED <<counter, tmp, resp, sleeping, awake, alive, exitStatus, exitCount,
                   sdHandled, sinceValid>>

\* A handler step that only moves t and sets its return value.
Return(t, body) ==
    /\ pc' = [pc EXCEPT ![t] = "send"]
    /\ resp' = [u \in DOMAIN resp \cup {t} |-> IF u = t THEN body ELSE resp[u]]

\* The framework answers a request itself, with status code `status`: no
\* handler of main.py runs for it; the answer waits in slot t to be written.
FrameworkAnswer(t, status) ==
    /\ alive
    /\ pc[t] = "idle"
    /\ \A u \in Threads : pc[u] = "idle" => t <= u
    /\ started < MaxRequests
    /\ Return(t, [status |-> status])
    /\ started' = started + 1
    /\ seq' = (seq /\ Busy = {})
    /\ UNCHANGED <<counter, route, tmp, sleeping, awake, alive, exitStatus, exitCount,
                   incStarted, resetStarted, sdHandled, cleanSinceReset, fresh,
                   quietResets, quietSinceReset, freshQuiet, epBase, epIncs, epTaint,
                   resetHist>>

\* The server receives request q on connection slot t and routes it.
Accept(t, q) ==
    /\ alive
    /\ pc[t] = "idle"
    /\ IF Routing[q].handler # "none"
       THEN Dispatch(t, Routing[q].handler)
       ELSE FrameworkAnswer(t, Routing[q].status)

\* lines 20-22
read_root(t) ==
    /\ alive
    /\ pc[t] = "root_ret"
    /\ Return(t, [message |-> <<"Python backend is running!">>])
    /\ UNCHANGED <<counter, route, tmp, sleeping, awake, alive, exitStatus, exitCount, hist, resetHist>>

\* A getter with a side effect: it bumps the global it reports.
get_counter_bump(t) ==
    /\ alive
    /\ pc[t] = "get_ret"
    /\ Return(t, [counter |-> counter])
    /\ counter' = counter + 1
    /\ UNCHANGED <<route, tmp, sleeping, awake, alive, exitStatus, exitCount, hist, resetHist>>

\* lines 24-27: one read of the global
get_counter(t) ==
    /\ alive
    /\ pc[t] = "get_ret"
    /\ Return(t, [counter |-> counter])
    /\ UNCHANGED <<counter, route, tmp, sleeping, awake, alive, exitStatus, exitCount, hist, resetHist>>

\* lines 29-34.  `counter += 1` is LOAD_GLOBAL, add, STORE_GLOBAL; the return
\* statement reads the global once for the "counter" value and once more for
\* the f-string.
\* The increment adding 2 instead of 1.
inc_load_two(t) ==
    /\ pc[t] = "inc_load"
    /\ tmp' = [tmp EXCEPT ![t] = counter + 2]
    /\ pc' = [pc EXCEPT ![t] = "inc_store"]
    /\ UNCHANGED <<counter, resp>>

inc_load(t) ==
    /\ pc[t] = "inc_load"
    /\ tmp' = [tmp EXCEPT ![t] = counter + 1]
    /\ pc' = [pc EXCEPT ![t] = "inc_store"]
    /\ UNCHANGED <<counter, resp>>

\* `counter + 1` computed and dropped: the global keeps its value.
inc_store_dropped(t) ==
    /\ pc[t] = "inc_store"
    /\ counter' = counter
    /\ pc' = [pc EXCEPT ![t] = "inc_ret_counter"]
    /\ UNCHANGED <<tmp, resp>>

inc_store(t) ==
    /\ pc[t] = "inc_store"
    /\ counter' = tmp[t]
    /\ pc' = [pc EXCEPT ![t] = "inc_ret_counter"]
    /\ UNCHANGED <<tmp, resp>>

inc_ret_counter(t) ==
    /\ pc[t] = "inc_ret_counter"
    /\ tmp' = [tmp EXCEPT ![t] = counter]
    /\ pc' = [pc EXCEPT ![t] = "inc_ret_message"]
    /\ UNCHANGED <<counter, resp>>

inc_ret_message(t) ==
    /\ pc[t] = "inc_ret_message"
    /\ Return(t, [counter |-> tmp[t], message |-> IncrementMessage(counter)])
    /\ UNCHANGED <<counter, tmp>>

increment_counter(t) ==
    /\ alive
    /\ inc_load(t) \/ inc_store(t) \/ inc_ret_counter(t) \/ inc_ret_message(t)
    /\ UNCHANGED <<route, sleeping, awake, alive, exitStatus, exitCount, hist, resetHist>>

\* lines 36-41.  `counter = 0` is one STORE_GLOBAL; the return statement reads
\* the global again for the "counter" value, the message is a literal.
\* The assignment without `global counter`: it binds a local, the global stays.
rst_store_local(t) ==
    /\ pc[t] = "rst_store"
    /\ counter' = counter
    /\ pc' = [pc EXCEPT ![t] = "rst_ret"]
    /\ UNCHANGED resp

rst_store(t) ==
    /\ pc[t] = "rst_store"
    /\ counter' = 0
    /\ pc' = [pc EXCEPT ![t] = "rst_ret"]
    /\ UNCHANGED resp

rst_ret(t) ==
    /\ pc[t] = "rst_ret"
    /\ Return(t, [counter |-> counter, message |-> <<"Counter reset to ", "0">>])
    /\ UNCHANGED counter

reset_counter(t) ==
    /\ alive
    /\ \/ /\ rst_store(t)
          /\ sinceWrite' = 0
          /\ sinceValid' = (InFlight("POST /counter/increment") = {})
       \/ /\ rst_ret(t)
          /\ UNCHANGED resetHist
    /\ UNCHANGED <<route, tmp, sleeping, awake, alive, exitStatus, exitCount, hist>>

\* lines 57-59: threading.Thread(target=shutdown_server, daemon=True).start()
sd_spawn(t) ==
    /\ pc[t] = "sd_spawn"
    /\ sleeping' = sleeping + 1
    /\ sdHandled' = sdHandled + 1
    /\ pc' = [pc EXCEPT ![t] = "sd_ret"]
    /\ UNCHANGED resp

\* The handler joining the thread it started before it returns.
sd_ret_join(t) ==
    /\ pc[t] = "sd_ret"
    /\ sleeping = 0 /\ awake = 0
    /\ Return(t, [message |-> <<"Server shutting down">>])
    /\ UNCHANGED <<sleeping, sdHandled>>

\* line 61: the handler returns; it never joins the thread it started.
sd_ret(t) ==
    /\ pc[t] = "sd_ret"
    /\ Return(t, [message |-> <<"Server shutting down">>])
    /\ UNCHANGED <<sleeping, sdHandled>>

shutdown(t) ==
    /\ alive
    /\ sd_spawn(t) \/ sd_ret(t)
    /\ UNCHANGED <<counter, route, tmp, awake, alive, exitStatus, exitCount,
                   started, incStarted, resetStarted, seq, cleanSinceReset, fresh,
                   quietResets, quietSinceReset, freshQuiet, epBase, epIncs, epTaint,
                   resetHist>>

\* lines 52-53: a background thread's time.sleep(0.1) elapses.
sleep_elapses ==
    /\ alive
    /\ sleeping > 0
    /\ sleeping' = sleeping - 1
    /\ awake' = awake + 1
    /\ UNCHANGED <<counter, pc, route, tmp, resp, alive, exitStatus, exitCount, hist, resetHist>>

\* A graceful exit: it waits until no request is in flight.
os_exit_drain ==
    /\ alive
    /\ awake > 0
    /\ Busy = {}
    /\ alive' = FALSE
    /\ exitStatus' = 0
    /\ exitCount' = exitCount + 1
    /\ UNCHANGED <<counter, pc, route, tmp, resp, sleeping, awake, hist, resetHist>>

\* The exit reporting a failure: os._exit(1).
os_exit_status_one ==
    /\ alive
    /\ awake > 0
    /\ alive' = FALSE
    /\ exitStatus' = 1
    /\ exitCount' = exitCount + 1
    /\ UNCHANGED <<counter, pc, route, tmp, resp, sleeping, awake, hist, resetHist>>

\* line 55: os._exit(0) ends the process at once, whatever the other threads do.
os_exit ==
    /\ alive
    /\ awake > 0
    /\ alive' = FALSE
    /\ exitStatus' = 0
    /\ exitCount' = exitCount + 1
    /\ UNCHANGED <<counter, pc, route, tmp, resp, sleeping, awake, hist, resetHist>>

\* lines 50-55
shutdown_server == sleep_elapses \/ os_exit

\* The event loop writes the value handler t returned to the client's socket.
SendResponse(t) ==
    /\ alive
    /\ pc[t] = "send"
    /\ pc' = [pc EXCEPT ![t] = "idle"]
    /\ route' = [route EXCEPT ![t] = "none"]
    /\ tmp' = [tmp EXCEPT ![t] = 0]
    /\ resp' = [u \in DOMAIN resp \ {t} |-> resp[u]]
    /\ fresh' = fresh \ {t}
    /\ freshQuiet' = freshQuiet \ {t}
    /\ quietResets' = quietResets \ {t}
    /\ cleanSinceReset' = IF route[t] = "POST /counter/reset"
                          THEN InFlight("POST /counter/increment") = {}
                          ELSE cleanSinceReset
    /\ quietSinceReset' = IF route[t] = "POST /counter/reset"
                          THEN t \in quietResets
                          ELSE quietSinceReset
    /\ UNCHANGED <<counter, sleeping, awake, alive, exitStatus, exitCount,
                   started, incStarted, resetStarted, sdHandled, seq,
                   epBase, epIncs, epTaint, resetHist>>

Next ==
    \/ \E t \in Threads, q \in Requests : Accept(t, q)
    \/ \E t \in Threads : read_root(t)
    \/ \E t \in Threads : get_counter(t)
    \/ \E t \in Threads : increment_counter(t)
    \/ \E t \in Threads : reset_counter(t)
    \/ \E t \in Threads : shutdown(t)
    \/ \E t \in Threads : SendResponse(t)
    \/ shutdown_server

Spec == Init /\ [][Next]_vars

\* The operating system schedules a started background thread: its sleep ends
\* and its os._exit call runs.
LiveSpec == Spec /\ WF_vars(shutdown_server)

TypeOK ==
    /\ counter \in 0..MaxRequests
    /\ pc \in [Threads -> {"idle", "root_ret", "get_ret", "inc_load", "inc_store",
                           "inc_ret_counter", "inc_ret_message", "rst_store", "rst_ret",
                           "sd_spawn", "sd_ret", "send"}]
    /\ route \in [Threads -> Routes \cup {"none"}]
    /\ DOMAIN resp = {t \in Threads : pc[t] = "send"}
    /\ sleeping \in 0..MaxRequests /\ awake \in 0..MaxRequests
    /\ exitCount \in 0..1
----------------------------------------------------------------------------
GET_ROOT == "GET /"
GET_COUNTER == "GET /counter"
INCREMENT == "POST /counter/increment"
RESET == "POST /counter/reset"
SHUTDOWN == "POST /shutdown"

\* C1: after n >= 1 increments run strictly one after another from process
\* start, with no reset, a following GET /counter returns n.
C1_SequentialIncrements ==
    \A t \in DOMAIN resp :
        (route[t] = GET_COUNTER /\ seq /\ resetStarted = 0 /\ incStarted >= 1)
            => resp[t].counter = incStarted

C1_Witness ==
    \E t \in DOMAIN resp :
        /\ route[t] = GET_COUNTER /\ seq /\ resetStarted = 0
        /\ incStarted >= 2 /\ resp[t].counter = incStarted

\* C2: when the process has exited, every POST /shutdown whose handler started
\* its thread has had its response sent (response sent precedes process exit).
C2_ResponseBeforeExit ==
    ~alive => \A t \in Threads :
                  ~(route[t] = SHUTDOWN /\ pc[t] \in {"sd_ret", "send"})

\* C3: the body POST /counter/reset returns always has counter 0.
C3_ResetReturnsZero ==
    \A t \in DOMAIN resp : route[t] = RESET => resp[t].counter = 0

\* C4: in the body POST /counter/increment returns, the counter field equals
\* the integer at the end of the message field.
C4_IncrementFieldsAgree ==
    \A t \in DOMAIN resp :
        route[t] = INCREMENT => resp[t].counter = TrailingInt(resp[t].message)

\* C5 as claimed: a GET /counter dispatched after a reset completed, with no
\* increment in flight or dispatched since that completion, returns 0.
C5_GetAfterReset ==
    \A t \in DOMAIN resp :
        (route[t] = GET_COUNTER /\ t \in fresh) => resp[t].counter = 0

\* C5 as amended: a GET /counter dispatched after a reset completed, with no
\* increment in flight or dispatched since that reset was dispatched, returns 0.
C5_GetAfterQuietReset ==
    \A t \in DOMAIN resp :
        (route[t] = GET_COUNTER /\ t \in freshQuiet) => resp[t].counter = 0

C5_Witness ==
    \E t \in DOMAIN resp :
        /\ route[t] = GET_COUNTER /\ t \in freshQuiet
        /\ incStarted >= 1 /\ resetStarted = 1 /\ resp[t].counter = 0

\* C6: a GET /counter answered before any increment request has begun
\* returns 0.
C6_InitialGet ==
    \A t \in DOMAIN resp :
        (route[t] = GET_COUNTER /\ incStarted = 0) => resp[t].counter = 0

C6_Witness ==
    \E t \in DOMAIN resp :
        /\ route[t] = GET_COUNTER /\ incStarted = 0 /\ resetStarted = 0
        /\ resp[t].counter = 0

\* C7: once a POST /shutdown handler has started its thread the process
\* eventually exits, whatever the other handlers do, and its status is 0.
C7_ShutdownExits ==
    /\ (sdHandled > 0) ~> (~alive)
    /\ [](~alive => exitStatus = 0)

C7_Witness ==
    ~alive /\ exitStatus = 0 /\ sdHandled > 0 /\ Busy # {}

\* C8: every step that changes the counter is a step of an increment or a
\* reset handler; steps of GET /, GET /counter, POST /shutdown and of the
\* background thread leave it unchanged.
C8_CounterFrame ==
    [][ /\ counter' # counter =>
            \E t \in Threads : /\ route[t] \in {INCREMENT, RESET}
                               /\ route'[t] = route[t]
                               /\ pc'[t] # pc[t]
        /\ \A t \in Threads :
            (pc'[t] # pc[t] /\ ({route[t], route'[t]}
                                  \cap {GET_ROOT, GET_COUNTER, SHUTDOWN} # {})
                => counter' = counter)
        /\ <<sleeping, awake, alive>>' # <<sleeping, awake, alive>>
                => counter' = counter ]_vars

C8_Witness ==
    /\ counter > 0 /\ sdHandled > 0
    /\ \E t \in DOMAIN resp : route[t] \in {GET_ROOT, GET_COUNTER}

\* C9: a shutdown handler that has started its thread can return whatever
\* that thread is doing; a thread past its sleep can exit whatever requests
\* are in flight; and once the process has exited nothing moves, so a request
\* in flight at the exit never gets its response.
C9_ShutdownNotBlocking ==
    /\ [](\A t \in Threads : (alive /\ pc[t] = "sd_ret") => ENABLED shutdown(t))
    /\ []((alive /\ awake > 0) => ENABLED os_exit)
    /\ [][~alive => UNCHANGED vars]_vars

C9_Witness ==
    /\ ~alive
    /\ \E t \in Threads : route[t] \in {INCREMENT, RESET} /\ pc[t] # "idle"
    /\ InFlight(SHUTDOWN) = {}

\* C10: when a burst of k overlapping increments that no reset touches has
\* completed, the counter is its value before the burst plus k.
C10_NoLostUpdate ==
    (InFlight(INCREMENT) = {} /\ ~epTaint /\ epIncs > 0)
        => counter = epBase + epIncs
\* The requests C11 is about: no decorator registers their method and path.
Unrouted(q) == ~\E e \in RouteTable : e.method = q.method /\ e.path = q.path

UnroutedRequests == {q \in Requests : Unrouted(q)}

\* The step leaves the counter and the shutdown state as they were and
\* starts no handler in slot t.
NoHandlerRan(t) ==
    /\ pc'[t] = "send" /\ route'[t] = "none"
    /\ UNCHANGED <<counter, sleeping, awake, alive, exitStatus, exitCount, sdHandled,
                   incStarted, resetStarted>>

C12_IncrementReportsPositive ==
    \A t \in DOMAIN resp :
        route[t] = INCREMENT
            => (resp[t].counter >= 1 /\ TrailingInt(resp[t].message) >= 1)

\* C13: the counter is never negative and never exceeds the number of
\* increment requests begun since process start, nor the number begun since
\* the last reset's write of 0 when no increment was in flight at that write.
C13_CounterBounded ==
    /\ counter \in Nat
    /\ counter <= incStarted
    /\ sinceValid => counter <= sinceWrite

C13_Witness ==
    /\ sinceValid /\ sinceWrite >= 1 /\ counter = sinceWrite
    /\ incStarted > sinceWrite

\* C14: every shutdown handler that ran started a background thread of its
\* own; the process exits at most once, with status 0; and once it has exited
\* no step occurs: no handler runs, the counter is neither read nor written.
C14_ExitOnce ==
    /\ [](sdHandled = sleeping + awake)
    /\ [](exitCount <= 1 /\ (alive <=> exitCount = 0))
    /\ [](~alive => (exitStatus = 0 /\ awake >= 1))
    /\ [][~alive => (exitCount' = exitCount /\ counter' = counter
                       /\ pc' = pc /\ resp' = resp /\ tmp' = tmp)]_vars

C14_Witness ==
    /\ ~alive /\ exitCount = 1 /\ exitStatus = 0
    /\ sdHandled >= 2
    /\ counter > 0
====
